---- MODULE Spec2Model ----
(***************************************************************************)
(* Model of netbox/utilities/filters.py: the multi-value form field        *)
(* factory and the filter classes built on django_filters.                 *)
(*                                                                         *)
(* A request is a chain of filter calls: the framework hands the queryset  *)
(* returned by one filter to the next one.  Python values are tagged       *)
(* tuples (<<"str", s>>, <<"int", n>>, ...); None is <<"None">>.  Raw      *)
(* query values are plain strings.  A queryset is the set of rows it       *)
(* selects, its DISTINCT flag, and whether its condition can be evaluated. *)
(***************************************************************************)
EXTENDS Integers, Sequences, FiniteSets, TLC

VARIABLES
    qs,       \* the queryset object passed to the last filter call, as it is after the call
    given,    \* the contents of that object at the moment it was passed
    ret,      \* the queryset the framework holds for the next call (the last return value)
    call,     \* the last call: [filter, value]
    handed,   \* what the last call handed to the delegated filtering: [value, preds]
    outcome,  \* "start" | "cleaned" | "form_error" | "returned" | "raised"
    pc        \* "ready" | "cleaned": position of the request between field.clean and filter

vars == <<qs, given, ret, call, handed, outcome, pc>>

\* ------------------------------------------------------------------ bounds

MaxList == 2      \* longest list of raw query values / selected nodes
MaxStr == 3       \* longest content-type string, in characters

\* ------------------------------------------------------------ Python values

None == <<"None">>
ValidationError == <<"ValidationError">>
\* the result of a call that may raise: the value, or the exception's name
Ok(v) == [exc |-> "", val |-> v]
Raised(e) == [exc |-> e, val |-> <<>>]
S(s) == <<"str", s>>

SeqsUpTo(A, n) == UNION {[1..k -> A] : k \in 0..n}

Range(s) == {s[i] : i \in DOMAIN s}

\* django_filters.constants.EMPTY_VALUES = ([], (), {}, "", None)
C(s) == <<"chars", s>>
EMPTY_VALUES == {None, S(""), C(<<>>)}

\* ------------------------------------------------- the single-value form fields

FieldClasses ==
    {"CharField", "DateField", "DateTimeField", "IntegerField", "DecimalField", "TimeField"}

\* field.to_python(v) of a default instance of field_class, on the raw strings of the
\* model: the coerced value, or ValidationError.  CharField strips white space;
\* IntegerField, DecimalField and the date/time fields parse, so that several raw
\* strings coerce to one value and others are rejected.
FieldToPython(field_class, v) ==
    CASE field_class = "CharField" ->
            (CASE v = " a" -> S("a")
               [] v = " "  -> S("")
               [] OTHER    -> S(v))
      [] field_class = "IntegerField" ->
            (CASE v \in {"1", "01", " 1"} -> <<"int", "1">>
               [] v = "2"                 -> <<"int", "2">>
               [] OTHER                   -> ValidationError)
      [] field_class = "DecimalField" ->
            (CASE v \in {"1", "1.0"} -> <<"dec", "1">>
               [] v = "NaN"          -> <<"dec", "NaN">>
               [] OTHER              -> ValidationError)
      [] field_class = "DateField" ->
            (CASE v \in {"2020-01-02", "01/02/2020"} -> <<"date", "2020-01-02">>
               [] v = "2021-03-04"                   -> <<"date", "2021-03-04">>
               [] OTHER                              -> ValidationError)
      [] field_class = "DateTimeField" ->
            (CASE v \in {"2020-01-02 00:00:00", "2020-01-02"} -> <<"datetime", "2020-01-02 00:00:00">>
               [] v = "2020-01-02 10:00:00"                   -> <<"datetime", "2020-01-02 10:00:00">>
               [] OTHER                                       -> ValidationError)
      [] field_class = "TimeField" ->
            (CASE v \in {"10:00", "10:00:00"} -> <<"time", "10:00:00">>
               [] v = "11:30"                 -> <<"time", "11:30:00">>
               [] OTHER                       -> ValidationError)

\* super().validate(v): TRUE when v passes.  The filter's field is not required, so
\* an empty value passes; DecimalField rejects a value that is not finite.
FieldValidate(field_class, v) ==
    ~(field_class = "DecimalField" /\ v = <<"dec", "NaN">>)

\* super().run_validators(v): TRUE when v passes.  CharField carries the validator
\* that prohibits null characters ("\\0" stands for a string holding one).
FieldRunValidators(field_class, v) ==
    ~(field_class = "CharField" /\ v = S("\\0"))

\* ------------------------------------- multivalue_field_factory(field_class).NewField

\* Python truth of a raw query value (a string)
Truthy(v) == v # ""

\* the comprehension without its "if v": empty entries are coerced too
CoerceEach_KeepEmpty(field_class, value) ==
    [i \in DOMAIN value |-> FieldToPython(field_class, value[i])]

\* [field.to_python(v) for v in value if v]
CoerceEach(field_class, value) ==
    LET kept == SelectSeq(value, Truthy)
    IN  [i \in DOMAIN kept |-> FieldToPython(field_class, kept[i])]

\* NewField.to_python(value): the list of coerced values; ValidationError as soon as
\* one entry's to_python raises
to_python(field_class, value) ==
    IF value = <<>> THEN Ok(<<>>)
    ELSE LET out == CoerceEach(field_class, value)
         IN  IF \E i \in DOMAIN out : out[i] = ValidationError
             THEN Raised("ValidationError") ELSE Ok(out)

\* validate that looks at the first entry only
validate_FirstOnly(field_class, value) ==
    value = <<>> \/ FieldValidate(field_class, value[1])

\* NewField.validate(value): TRUE when no super().validate(v) raises
validate(field_class, value) ==
    \A i \in DOMAIN value : FieldValidate(field_class, value[i])

\* NewField.run_validators(value): TRUE when no super().run_validators(v) raises
run_validators(field_class, value) ==
    \A i \in DOMAIN value : FieldRunValidators(field_class, value[i])

\* Field.clean(value) of the multi-value field: to_python, validate, run_validators;
\* the cleaned list, or ValidationError
clean(field_class, value) ==
    LET v == to_python(field_class, value)
    IN  IF v.exc # "" THEN v
        ELSE IF ~validate(field_class, v.val) THEN Raised("ValidationError")
        ELSE IF ~run_validators(field_class, v.val) THEN Raised("ValidationError")
        ELSE v

\* ---------------------------------------------------------------- the database

\* The tree of regions: R1 > R2 > R3, and R4 > R5
Nodes == {"R1", "R2", "R3", "R4", "R5"}
Node(n) == <<"node", n>>
Parent == [n \in Nodes |->
             CASE n = "R2" -> "R1" [] n = "R3" -> "R2" [] n = "R5" -> "R4" [] OTHER -> "" ]

\* The table the querysets select from, column by column; row r is Table[column][r]
Table == [
    name     |-> << S("a"), S("a"), S("null"), None, S(""), S("b") >>,
    date     |-> << <<"date", "2020-01-02">>, None, <<"date", "2021-03-04">>,
                    <<"date", "2020-01-02">>, None, <<"date", "2021-03-04">> >>,
    datetime |-> << <<"datetime", "2020-01-02 00:00:00">>, <<"datetime", "2020-01-02 10:00:00">>,
                    None, None, <<"datetime", "2020-01-02 00:00:00">>, None >>,
    number   |-> << <<"int", "1">>, <<"int", "2">>, None, <<"int", "1">>, <<"int", "3">>, None >>,
    decimal  |-> << <<"dec", "1">>, None, <<"dec", "2">>, None, <<"dec", "1">>, <<"dec", "1">> >>,
    time     |-> << None, <<"time", "10:00:00">>, <<"time", "11:30:00">>, None,
                    <<"time", "10:00:00">>, <<"time", "12:00:00">> >>,
    mac      |-> << <<"mac", "00:11:22:33:44:55">>, None, <<"mac", "AA:BB:CC:DD:EE:FF">>,
                    <<"mac", "00:11:22:33:44:55">>, None, None >>,
    wwn      |-> << None, <<"wwn", "10:00:00:00:00:00:00:01">>, None, None,
                    <<"wwn", "10:00:00:00:00:00:00:01">>, <<"wwn", "10:00:00:00:00:00:00:02">> >>,
    region   |-> << Node("R1"), Node("R2"), Node("R3"), Node("R4"), Node("R5"), None >>,
    vids     |-> << {0, 1}, {1, 2}, {}, {0}, {2}, {1} >>,
    app_label |-> << <<"d">>, <<"d">>, <<"s">>, <<"d">>, <<"d", "s">>, <<"s">> >>,
    model     |-> << <<"s">>, <<"d">>, <<"s">>, <<"s">>, <<"s">>, <<"d", "s">> >>
]

Rows == DOMAIN Table.name

\* ------------------------------------------------------------------ querysets

\* Model.objects.all(): every row, not DISTINCT
AllObjects == [rows |-> Rows, distinct |-> FALSE, bad |-> FALSE]

\* The result of a filter call: the exception raised ("" when it returns), the
\* queryset returned, the argument object as the call left it, and what the call
\* handed to the query builder.
Returns(arg, r, h) == [exc |-> "", ret |-> r, arg |-> arg, handed |-> h]
Raises(arg, e, h) == [exc |-> e, ret |-> arg, arg |-> arg, handed |-> h]

\* qs.filter(...) with a condition the rows of `matching` satisfy: a new queryset
qs_filter(q, matching) == [q EXCEPT !.rows = q.rows \cap matching]

\* qs.none(): a new, empty queryset
qs_none(q) == [q EXCEPT !.rows = {}]

\* qs.distinct(): a new queryset with the DISTINCT flag
qs_distinct(q) == [q EXCEPT !.distinct = TRUE]

\* what a call hands to the query builder: the value and the conditions built from it
H(value, preds) == [value |-> value, preds |-> preds]

\* ------------------------------------------------------- the filters' configuration

MultiValueFilters ==
    {"MultiValueCharFilter", "MultiValueDateFilter", "MultiValueDateTimeFilter",
     "MultiValueNumberFilter", "MultiValueDecimalFilter", "MultiValueTimeFilter",
     "MultiValueMACAddressFilter", "MultiValueWWNFilter"}

\* field_class = multivalue_field_factory(forms.X): the X of each filter
field_class(f) ==
    CASE f = "MultiValueDateFilter"     -> "DateField"
      [] f = "MultiValueDateTimeFilter" -> "DateTimeField"
      [] f = "MultiValueNumberFilter"   -> "IntegerField"
      [] f = "MultiValueDecimalFilter"  -> "DecimalField"
      [] f = "MultiValueTimeFilter"     -> "TimeField"
      [] OTHER                          -> "CharField"

\* self.field_name: the column each filter is bound to
field_name(f) ==
    CASE f = "MultiValueCharFilter"         -> "name"
      [] f = "MultiValueDateFilter"         -> "date"
      [] f = "MultiValueDateTimeFilter"     -> "datetime"
      [] f = "MultiValueNumberFilter"       -> "number"
      [] f = "MultiValueDecimalFilter"      -> "decimal"
      [] f = "MultiValueTimeFilter"         -> "time"
      [] f = "MultiValueMACAddressFilter"   -> "mac"
      [] f = "MultiValueWWNFilter"          -> "wwn"
      [] f = "TreeNodeMultipleChoiceFilter" -> "region"
      [] f = "NullableCharFieldFilter"      -> "name"
      [] f = "NumericArrayFilter"           -> "vids"

\* self.lookup_expr: "exact" unless the filter is created with another one; the
\* tree filter is created with "in" and the array filter with "contains"
lookup_expr(f) ==
    CASE f = "TreeNodeMultipleChoiceFilter" -> "in"
      [] f = "NumericArrayFilter"           -> "contains"
      [] OTHER                              -> "exact"

\* self.distinct: MultipleChoiceFilter sets it by default, Filter does not
distinct(f) == f \in MultiValueFilters \cup {"TreeNodeMultipleChoiceFilter"}

\* settings.FILTERS_NULL_CHOICE_VALUE, which is also the filters' null_value
FILTERS_NULL_CHOICE_VALUE == S("null")

\* ----------------------------------------------------- the model fields' lookups

\* The model field's get_prep_value, applied to a lookup's right-hand side when the
\* condition is built: the MAC and WWN columns parse the string and raise
\* ValidationError on one that is no address; the other columns take the value.
get_prep_value(f, v) ==
    CASE f = "MultiValueMACAddressFilter" ->
            (CASE v \in {S("00:11:22:33:44:55"), S("00-11-22-33-44-55")}
                      -> <<"mac", "00:11:22:33:44:55">>
               [] v = S("") -> None
               [] OTHER -> ValidationError)
      [] f = "MultiValueWWNFilter" ->
            (CASE v = S("10:00:00:00:00:00:00:01") -> <<"wwn", "10:00:00:00:00:00:00:01">>
               [] v = S("") -> None
               [] OTHER -> ValidationError)
      [] OTHER -> v

\* Building the condition p raises ValidationError
PredicateRaises(f, p) ==
    p.lookup = "exact" /\ p.rhs # None /\ get_prep_value(f, p.rhs) = ValidationError

\* The condition cannot be evaluated: containment needs a collection operand
IllFormed(p) == p.lookup = "contains" /\ p.rhs[1] # "list"

\* Row r satisfies condition p of filter f
Satisfies(f, r, p) ==
    LET col == Table[field_name(f)][r]
    IN  CASE p.lookup = "isnull" -> col = None
          [] p.lookup = "exact" ->
                IF p.rhs = None THEN col = None
                ELSE LET v == get_prep_value(f, p.rhs) IN v # None /\ col = v
          [] p.lookup = "in" -> col \in p.rhs[2]
          [] p.lookup = "contains" ->
                ~IllFormed(p) /\ {x[2] : x \in Range(p.rhs[2])} \subseteq col

Matching(f, preds) == {r \in Rows : \E p \in preds : Satisfies(f, r, p)}

\* ------------------------------------------------ django_filters' filter methods

\* MultipleChoiceFilter.get_filter_predicate(v), with TreeNodeMultipleChoiceFilter's
\* override for the null value
get_filter_predicate(f, v) ==
    IF f = "TreeNodeMultipleChoiceFilter" /\ v = None
    THEN [lookup |-> "isnull", rhs |-> <<"bool", "True">>]
    ELSE [lookup |-> lookup_expr(f), rhs |-> v]

\* MultipleChoiceFilter.filter(qs, value): an empty list returns qs itself;
\* otherwise the conditions of the distinct values (the null value standing for
\* None) are OR-ed, applied with qs.filter, and the result made DISTINCT
MultipleChoiceFilter_filter(f, q, value) ==
    IF value = <<>> THEN Returns(q, q, H(value, {}))
    ELSE LET vs == {IF v = FILTERS_NULL_CHOICE_VALUE THEN None ELSE v : v \in Range(value)}
             preds == {get_filter_predicate(f, v) : v \in vs}
             found == qs_filter(q, Matching(f, preds))
         IN  IF \E p \in preds : PredicateRaises(f, p)
             THEN Raises(q, "ValidationError", H(value, preds))
             ELSE Returns(q, IF distinct(f) THEN qs_distinct(found) ELSE found, H(value, preds))

\* Filter.filter(qs, value), the base of CharFilter and NumberFilter: an empty value
\* returns qs itself; otherwise qs.filter(<field_name>__<lookup_expr>=value)
Filter_filter(f, q, value) ==
    IF value \in EMPTY_VALUES THEN Returns(q, q, H(value, {}))
    ELSE LET p == [lookup |-> lookup_expr(f), rhs |-> value]
             q1 == IF distinct(f) THEN qs_distinct(q) ELSE q
         IN  Returns(q, [qs_filter(q1, Matching(f, {p})) EXCEPT !.bad = q.bad \/ IllFormed(p)],
                     H(value, {p}))

\* --------------------------------------------------- the filters of this module

\* the filter without its try/except
MultiValueMACAddressFilter_filter_NoHandler(q, value) ==
    MultipleChoiceFilter_filter("MultiValueMACAddressFilter", q, value)

\* MultiValueMACAddressFilter.filter(qs, value)
MultiValueMACAddressFilter_filter(q, value) ==
    LET r == MultipleChoiceFilter_filter("MultiValueMACAddressFilter", q, value)
    IN  IF r.exc = "ValidationError" THEN Returns(q, qs_none(q), r.handed) ELSE r

\* the ancestors of node n, n included
RECURSIVE get_ancestors(_)
get_ancestors(n) == IF Parent[n] = "" THEN {n} ELSE {n} \cup get_ancestors(Parent[n])

\* get_descendants that leaves the node itself out
get_descendants_WithoutSelf(n, include_self) ==
    <<"qs", {Node(m) : m \in {m \in Nodes : n \in get_ancestors(m) /\ m # n}}>>

\* node.get_descendants(include_self): the queryset of the nodes below n
get_descendants(n, include_self) ==
    <<"qs", {Node(m) : m \in {m \in Nodes : n \in get_ancestors(m) /\ (include_self \/ m # n)}}>>

\* isinstance(node, str)
IsStr(x) == x[1] = "str"

\* TreeNodeMultipleChoiceFilter.filter(qs, value)
TreeNodeMultipleChoiceFilter_filter(q, value) ==
    LET expanded == [i \in DOMAIN value |->
                        IF ~IsStr(value[i]) THEN get_descendants(value[i][2], TRUE)
                        ELSE value[i]]
    IN  MultipleChoiceFilter_filter("TreeNodeMultipleChoiceFilter", q, expanded)

\* the filter without the sentinel test: every value goes to equality filtering
NullableCharFieldFilter_filter_NoSentinel(q, value) ==
    Filter_filter("NullableCharFieldFilter", q, value)

\* the filter narrowing the queryset it was given instead of a copy
NullableCharFieldFilter_filter_InPlace(q, value) ==
    LET f == "NullableCharFieldFilter"
        p == [lookup |-> "isnull", rhs |-> <<"bool", "True">>]
        q1 == qs_filter(q, Matching(f, {p}))
    IN  IF value # FILTERS_NULL_CHOICE_VALUE THEN Filter_filter(f, q, value)
        ELSE Returns(q1, q1, H(value, {p}))

\* NullableCharFieldFilter.filter(qs, value)
NullableCharFieldFilter_filter(q, value) ==
    LET f == "NullableCharFieldFilter"
        p == [lookup |-> "isnull", rhs |-> <<"bool", "True">>]
        q1 == qs_filter(q, Matching(f, {p}))
    IN  IF value # FILTERS_NULL_CHOICE_VALUE THEN Filter_filter(f, q, value)
        ELSE Returns(q, IF distinct(f) THEN qs_distinct(q1) ELSE q1, H(value, {p}))

\* Python truth of a number or None: None and zero are false
TruthyNumber(value) == value # None /\ value[2] # 0

\* NumericArrayFilter.filter(qs, value)
NumericArrayFilter_filter(q, value) ==
    LET wrapped == IF TruthyNumber(value) THEN <<"list", <<value>> >> ELSE value
    IN  Filter_filter("NumericArrayFilter", q, wrapped)

\* the lower-case form of one character
LowerChar(c) == IF c = "D" THEN "d" ELSE IF c = "S" THEN "s" ELSE c

\* lower() forgotten
lower_Identity(s) == s

\* str.lower()
lower(s) == [i \in DOMAIN s |-> LowerChar(s[i])]

\* str.split(sep): the parts between the separators
RECURSIVE split(_, _)
split(s, sep) ==
    IF \A i \in DOMAIN s : s[i] # sep THEN <<s>>
    ELSE LET i == CHOOSE i \in DOMAIN s : s[i] = sep /\ \A j \in 1..(i - 1) : s[j] # sep
         IN  <<SubSeq(s, 1, i - 1)>> \o split(SubSeq(s, i + 1, Len(s)), sep)

\* the filter returning the queryset itself, not qs.none(), on a malformed value
ContentTypeFilter_filter_NoNone(q, value) ==
    IF value \in EMPTY_VALUES THEN Returns(q, q, H(value, {}))
    ELSE LET parts == split(lower(value[2]), ".")
         IN  IF Len(parts) # 2 THEN Returns(q, q, H(value, {}))
             ELSE Returns(q,
                          qs_filter(q, {r \in Rows : Table.app_label[r] = parts[1]
                                                     /\ Table.model[r] = parts[2]}),
                          H(value, {}))

\* ContentTypeFilter.filter(qs, value): unpacking the split into two names raises
\* ValueError unless there are exactly two parts
ContentTypeFilter_filter(q, value) ==
    IF value \in EMPTY_VALUES THEN Returns(q, q, H(value, {}))
    ELSE LET parts == split(lower(value[2]), ".")
         IN  IF Len(parts) # 2 THEN Returns(q, qs_none(q), H(value, {}))
             ELSE Returns(q,
                          qs_filter(q, {r \in Rows : Table.app_label[r] = parts[1]
                                                     /\ Table.model[r] = parts[2]}),
                          H(value, {[lookup |-> "app_label", rhs |-> C(parts[1])],
                                    [lookup |-> "model", rhs |-> C(parts[2])]}))

\* ----------------------------------------------------------------- the inputs

\* the raw query strings tried on each multi-value filter
RawValues(f) ==
    CASE f = "MultiValueCharFilter"       -> {"", "a", " a", " ", "null", "\\0"}
      [] f = "MultiValueDateFilter"       -> {"", "2020-01-02", "01/02/2020", "2021-03-04", "x"}
      [] f = "MultiValueDateTimeFilter"   -> {"", "2020-01-02 00:00:00", "2020-01-02",
                                              "2020-01-02 10:00:00", "x"}
      [] f = "MultiValueNumberFilter"     -> {"", "1", "01", "2", "x"}
      [] f = "MultiValueDecimalFilter"    -> {"", "1", "1.0", "NaN", "x"}
      [] f = "MultiValueTimeFilter"       -> {"", "10:00", "10:00:00", "11:30", "x"}
      [] f = "MultiValueMACAddressFilter" -> {"", "00:11:22:33:44:55", "00-11-22-33-44-55",
                                              "zz", "null"}
      [] f = "MultiValueWWNFilter"        -> {"", "10:00:00:00:00:00:00:01", "zz", "null"}

\* what ModelMultipleChoiceField hands the tree filter: nodes and the null choice
TreeChoices == {Node(n) : n \in Nodes} \cup {FILTERS_NULL_CHOICE_VALUE}

\* what CharField hands the nullable filter
NullableValues == {None, S(""), S("a"), S("b"), FILTERS_NULL_CHOICE_VALUE}

\* what DecimalField hands the array filter
NumberValues == {None} \cup {<<"num", n>> : n \in 0..2}

\* what CharField hands the content-type filter
Chars == {"d", "D", "s", "."}
ContentTypeValues == {None} \cup {C(s) : s \in SeqsUpTo(Chars, MaxStr)}

\* ------------------------------------------------------------ the state machine

NoCall == [filter |-> "", raw |-> <<>>, value |-> <<>>]

Init ==
    /\ qs = AllObjects
    /\ given = AllObjects
    /\ ret = AllObjects
    /\ call = NoCall
    /\ handed = H(<<>>, {})
    /\ outcome = "start"
    /\ pc = "idle"

\* A request starts: the view's queryset, which earlier filters of the chain may
\* have narrowed and made DISTINCT
Begin(rows, d) ==
    /\ pc = "idle"
    /\ LET q == [rows |-> rows, distinct |-> d, bad |-> FALSE]
       IN  qs' = q /\ given' = q /\ ret' = q
    /\ pc' = "ready"
    /\ UNCHANGED <<call, handed, outcome>>

\* The framework calls filter.filter(queryset, value) and keeps what it returns
Finish(f, raw, value, r) ==
    /\ qs' = r.arg
    /\ given' = ret
    /\ ret' = r.ret
    /\ call' = [filter |-> f, raw |-> raw, value |-> value]
    /\ handed' = r.handed
    /\ outcome' = IF r.exc = "" THEN "returned" ELSE r.exc
    /\ pc' = "done"

\* form validation of a multi-value parameter: field.clean(raw)
Clean(f, raw) ==
    /\ pc = "ready"
    /\ LET r == clean(field_class(f), raw)
       IN  /\ call' = [filter |-> f, raw |-> raw, value |-> r.val]
           /\ outcome' = IF r.exc = "" THEN "cleaned" ELSE "form_error"
           /\ pc' = IF r.exc = "" THEN "cleaned" ELSE "done"
    /\ UNCHANGED <<qs, given, ret, handed>>

\* filter.filter(qs, value) of a multi-value filter that inherits the method
FilterInherited ==
    /\ pc = "cleaned"
    /\ call.filter # "MultiValueMACAddressFilter"
    /\ Finish(call.filter, call.raw, call.value,
              MultipleChoiceFilter_filter(call.filter, ret, call.value))

FilterMACAddress ==
    /\ pc = "cleaned"
    /\ call.filter = "MultiValueMACAddressFilter"
    /\ Finish(call.filter, call.raw, call.value,
              MultiValueMACAddressFilter_filter(ret, call.value))

FilterTreeNode(value) ==
    /\ pc = "ready"
    /\ Finish("TreeNodeMultipleChoiceFilter", <<>>, value,
              TreeNodeMultipleChoiceFilter_filter(ret, value))

FilterNullable(value) ==
    /\ pc = "ready"
    /\ Finish("NullableCharFieldFilter", <<>>, value, NullableCharFieldFilter_filter(ret, value))

FilterNumericArray(value) ==
    /\ pc = "ready"
    /\ Finish("NumericArrayFilter", <<>>, value, NumericArrayFilter_filter(ret, value))

FilterContentType(value) ==
    /\ pc = "ready"
    /\ Finish("ContentTypeFilter", <<>>, value, ContentTypeFilter_filter(ret, value))

\* The response is sent (rows, or the error) and the request's objects are dropped
End ==
    /\ pc = "done"
    /\ qs' = AllObjects /\ given' = AllObjects /\ ret' = AllObjects
    /\ call' = NoCall
    /\ handed' = H(<<>>, {})
    /\ outcome' = "start"
    /\ pc' = "idle"

Next ==
    \/ \E rows \in SUBSET Rows : \E d \in BOOLEAN : Begin(rows, d)
    \/ \E f \in MultiValueFilters : \E raw \in SeqsUpTo(RawValues(f), MaxList) : Clean(f, raw)
    \/ FilterInherited
    \/ FilterMACAddress
    \/ \E value \in SeqsUpTo(TreeChoices, MaxList) : FilterTreeNode(value)
    \/ \E value \in NullableValues : FilterNullable(value)
    \/ \E value \in NumberValues : FilterNumericArray(value)
    \/ \E value \in ContentTypeValues : FilterContentType(value)
    \/ End

Spec == Init /\ [][Next]_vars

\* ------------------------------------------------------------------ properties

\* the filters the factory's six field types are declared for
FactoryFilters ==
    {"MultiValueCharFilter", "MultiValueDateFilter", "MultiValueDateTimeFilter",
     "MultiValueNumberFilter", "MultiValueDecimalFilter", "MultiValueTimeFilter"}

Column(f, r) == Table[field_name(f)][r]

\* the non-empty entries of the raw list of the last call
NonEmpty == SelectSeq(call.raw, Truthy)

\* the last call was filter f's filter method, and it has ended
Called(f) == pc = "done" /\ call.filter = f /\ outcome # "form_error"

\* row r equals the coerced value of some non-empty raw entry
EqualsSomeEntry(f, r) ==
    \E i \in DOMAIN NonEmpty : Column(f, r) = FieldToPython(field_class(f), NonEmpty[i])

\* as EqualsSomeEntry, an entry that coerces to the null value matching a null field
MatchesSomeEntry(f, r) ==
    \E i \in DOMAIN NonEmpty :
        LET v == FieldToPython(field_class(f), NonEmpty[i])
        IN  IF v = FILTERS_NULL_CHOICE_VALUE THEN Column(f, r) = None ELSE Column(f, r) = v

\* C1 as stated: for every list of raw values, a factory-built filter returns exactly
\* the rows that equal at least one of the non-empty values.
C1_Original ==
    \A f \in FactoryFilters :
        (Called(f) /\ outcome = "returned")
            => ret.rows = {r \in given.rows : EqualsSomeEntry(f, r)}

\* C1 amended: empty entries are dropped by to_python and a list without a non-empty
\* entry coerces to the empty list, for which the queryset is returned unfiltered; a
\* valid list with a non-empty entry returns exactly the rows of the input queryset
\* whose field equals the coerced value of some non-empty entry, an entry that
\* coerces to the null value "null" matching the rows whose field is null.
C1_Amended ==
    \A f \in FactoryFilters :
        /\ (call.filter = f /\ outcome \in {"cleaned", "returned"})
              => /\ Len(call.value) = Len(NonEmpty)
                 /\ \A i \in DOMAIN NonEmpty :
                        call.value[i] = FieldToPython(field_class(f), NonEmpty[i])
        /\ (Called(f) /\ outcome = "returned")
              => IF NonEmpty = <<>> THEN call.value = <<>> /\ ret = given
                 ELSE ret.rows = {r \in given.rows : MatchesSomeEntry(f, r)}

\* C1's case: two different values select the union of the rows of each
C1_Witness ==
    /\ Called("MultiValueNumberFilter") /\ outcome = "returned"
    /\ call.raw = <<"01", "2">>
    /\ given.rows = Rows
    /\ ret.rows = {1, 2, 4}

\* C1's other case: an empty entry beside a value is ignored
C1_WitnessEmptyDropped ==
    /\ Called("MultiValueCharFilter") /\ outcome = "returned"
    /\ call.raw = <<"", " a">>
    /\ call.value = <<S("a")>>
    /\ given.rows = Rows
    /\ ret.rows = {1, 2}

\* a raw entry passes the single-value field's to_python, validate and run_validators
EntryValid(fc, v) ==
    LET c == FieldToPython(fc, v)
    IN  c # ValidationError /\ FieldValidate(fc, c) /\ FieldRunValidators(fc, c)

\* C9: a multi-value field validates each non-empty entry on its own: the parameter
\* fails with a validation error exactly when some non-empty entry is invalid, and
\* otherwise the cleaned value is the list of all the coerced non-empty entries.
C9_EachEntryValidated ==
    \A f \in MultiValueFilters :
        call.filter = f =>
            /\ outcome = "form_error"
                  => \E i \in DOMAIN NonEmpty : ~EntryValid(field_class(f), NonEmpty[i])
            /\ outcome # "form_error"
                  => /\ \A i \in DOMAIN NonEmpty : EntryValid(field_class(f), NonEmpty[i])
                     /\ Len(call.value) = Len(NonEmpty)

\* C9's case: a valid entry beside an invalid one fails the whole parameter
C9_Witness ==
    /\ call.filter = "MultiValueDecimalFilter"
    /\ call.raw = <<"1.0", "NaN">>
    /\ outcome = "form_error"
    /\ pc = "done"

IsNull == [lookup |-> "isnull", rhs |-> <<"bool", "True">>]

\* C2: the null sentinel selects exactly the rows of the input queryset whose field
\* is null; any other value goes to standard equality filtering (an empty value
\* filters nothing) and builds no is-null condition.
C2_NullSentinel ==
    Called("NullableCharFieldFilter") =>
        /\ outcome = "returned"
        /\ call.value = S("null")
              => ret.rows = {r \in given.rows : Table.name[r] = None}
        /\ call.value # S("null")
              => /\ IsNull \notin handed.preds
                 /\ ret.rows = IF call.value \in {None, S("")} THEN given.rows
                               ELSE {r \in given.rows : Table.name[r] = call.value}

\* C2's case: the sentinel picks the one row with a null name out of all rows
C2_Witness ==
    /\ Called("NullableCharFieldFilter")
    /\ call.value = S("null")
    /\ given.rows = Rows
    /\ ret.rows = {4}

\* the positions of the dots of a string
Dots(s) == {i \in DOMAIN s : s[i] = "."}

\* C3: a value with exactly one dot selects the rows of the input queryset whose
\* app label is the lower-cased text before the dot and whose model is the
\* lower-cased text after it, and no other rows.
C3_AppLabelModel ==
    (Called("ContentTypeFilter") /\ call.value # None /\ Cardinality(Dots(call.value[2])) = 1) =>
        LET s == call.value[2]
            i == CHOOSE i \in Dots(s) : TRUE
            app == [k \in 1..(i - 1) |-> LowerChar(s[k])]
            mdl == [k \in 1..(Len(s) - i) |-> LowerChar(s[i + k])]
        IN  /\ outcome = "returned"
            /\ ret.rows = {r \in given.rows : Table.app_label[r] = app /\ Table.model[r] = mdl}

\* C3's case: "D.s" selects the rows of app label d and model s
C3_Witness ==
    /\ Called("ContentTypeFilter")
    /\ call.value = C(<<"D", ".", "s">>)
    /\ given.rows = Rows
    /\ ret.rows = {1, 4}

\* C4: a non-empty value without a dot, or with more than one, returns the empty
\* result set and raises nothing; an empty value returns the input queryset.
C4_Malformed ==
    Called("ContentTypeFilter") =>
        /\ outcome = "returned"
        /\ (call.value \notin {None, C(<<>>)} /\ Cardinality(Dots(call.value[2])) # 1)
              => ret.rows = {}
        /\ call.value \in {None, C(<<>>)} => ret = given

\* C4's case: two dots, on a queryset that has rows
C4_Witness ==
    /\ Called("ContentTypeFilter")
    /\ call.value = C(<<"d", ".", ".">>)
    /\ given.rows = Rows
    /\ ret.rows = {}

\* C4's other cases: no dot at all, and the empty value
C4_WitnessNoDot ==
    /\ Called("ContentTypeFilter")
    /\ call.value = C(<<"d", "s">>)
    /\ given.rows = Rows
    /\ ret.rows = {}

\* a cleaned entry the MAC column rejects (the null value is not looked up)
InvalidMAC(v) ==
    /\ v # FILTERS_NULL_CHOICE_VALUE
    /\ get_prep_value("MultiValueMACAddressFilter", v) = ValidationError

\* C5: the MAC-address filter never lets the ValidationError of an invalid address
\* out: a list with at least one invalid address returns the empty result set,
\* whatever else the list holds.
C5_InvalidMACIsEmpty ==
    Called("MultiValueMACAddressFilter") =>
        /\ outcome = "returned"
        /\ (\E i \in DOMAIN call.value : InvalidMAC(call.value[i])) => ret.rows = {}

\* C5's case: a valid address beside an invalid one, on a queryset holding a row
\* with the valid address
C5_Witness ==
    /\ Called("MultiValueMACAddressFilter")
    /\ call.raw = <<"00:11:22:33:44:55", "zz">>
    /\ 1 \in given.rows
    /\ ret.rows = {}
    /\ outcome = "returned"

\* node m lies in the subtree of node n: n is reached from m by parent steps
RECURSIVE InSubtree(_, _)
InSubtree(m, n) == m = n \/ (Parent[m] # "" /\ InSubtree(Parent[m], n))

\* the nodes selected by the last call, and the nodes of their subtrees
SelectedNodes == {call.value[i][2] : i \in {i \in DOMAIN call.value : ~IsStr(call.value[i])}}
Subtrees == {m \in Nodes : \E n \in SelectedNodes : InSubtree(m, n)}
LinkedToSubtree(r) == \E m \in Subtrees : Table.region[r] = Node(m)

\* C6 as stated: for every set of selected nodes the result holds every row linked
\* to a selected node or to a descendant of one, and no row linked only to nodes
\* outside those subtrees.
C6_Original ==
    Called("TreeNodeMultipleChoiceFilter") =>
        /\ \A r \in given.rows : LinkedToSubtree(r) => r \in ret.rows
        /\ \A r \in ret.rows : Table.region[r] # None => LinkedToSubtree(r)

\* C6 amended: for every non-empty selection each node is replaced by its subtree
\* (itself and all its descendants) and the null choice is handed on as it is; the
\* result is the rows of the input queryset linked to a node of a selected subtree,
\* and the rows linked to no node when the null choice is selected.  An empty
\* selection returns the queryset unfiltered.
C6_Amended ==
    Called("TreeNodeMultipleChoiceFilter") =>
        /\ outcome = "returned"
        /\ Len(handed.value) = Len(call.value)
        /\ \A i \in DOMAIN call.value :
              IF IsStr(call.value[i]) THEN handed.value[i] = call.value[i]
              ELSE handed.value[i] =
                     <<"qs", {Node(m) : m \in {m \in Nodes : InSubtree(m, call.value[i][2])}}>>
        /\ IF call.value = <<>> THEN ret = given
           ELSE ret.rows = {r \in given.rows :
                              \/ LinkedToSubtree(r)
                              \/ (FILTERS_NULL_CHOICE_VALUE \in Range(call.value)
                                    /\ Table.region[r] = None)}

\* C6's case: selecting R1 alone returns the rows linked to R1, R2 and R3
C6_Witness ==
    /\ Called("TreeNodeMultipleChoiceFilter")
    /\ call.value = <<Node("R1")>>
    /\ given.rows = Rows
    /\ ret.rows = {1, 2, 3}

\* C7 as stated: every number handed to the array filter, 0 included, is passed on
\* as the one-element list holding it.
C7_ScalarWrapped ==
    (Called("NumericArrayFilter") /\ call.value # None)
        => handed.value = <<"list", <<call.value>> >>

C10_NoExceptionEscapes ==
    pc = "done" => outcome \in {"returned", "form_error"}

====
